---- MODULE Spec2Model ----
(***************************************************************************)
(* Model of convert.py: the AI Verse -> YOLO converter.                    *)
(*                                                                         *)
(* Conventions.                                                            *)
(*   - A Python value that may be None is a sequence of length <= 1:       *)
(*     <<>> is None, <<v>> is v.  A string that the code splits on "/" or  *)
(*     joins with "/" is the sequence of its "/"-separated segments, and   *)
(*     <<>> is None.                                                       *)
(*   - A float is a fixed-point integer counting 1/Unit pixels; a ratio    *)
(*     of two floats is the exact fraction <<numerator, denominator>>.     *)
(*   - A file name is the record [dir, beauty, base, ext]; the bytes of an *)
(*     image file are the identity of the source file they were read from. *)
(***************************************************************************)
EXTENDS Integers, Sequences, FiniteSets, TLC

VARIABLES
    strict,        \* args.strict
    label_field,   \* args.label_field
    dataset,       \* the tree under args.inp: the scenes find_scene_dirs lists
    pc,            \* position of main: "scene" "image" "inst" "done" "raised"
    exc,           \* the exception that ended main, "" while none
    si,            \* index of json_path in find_scene_dirs(in_root)
    img_keys,      \* keys of img_map in insertion order
    img_map,       \* img_map
    per_image,     \* per_image
    ii,            \* index of (iid, meta) in img_map.items()
    src_img,       \* src_img
    w,             \* w
    h,             \* h
    ki,            \* index of inst in per_image[iid]
    lines,         \* lines
    classes,       \* classes
    next_cid,      \* next_cid
    stats,         \* stats
    out_images,    \* out_root/images: output file name -> bytes
    out_labels,    \* out_root/labels: output stem -> lines
    out_yaml,      \* out_root/data.yaml: <<>> while absent, else <<names>>
    run,           \* which invocation of main this is
    first_out,     \* the output directory as the previous invocation left it
    bb             \* one call of yolo_bbox: its arguments and its result

vars == <<strict, label_field, dataset, pc, exc, si, img_keys, img_map,
          per_image, ii, src_img, w, h, ki, lines, classes, next_cid, stats,
          out_images, out_labels, out_yaml, run, first_out, bb>>

(***************************************************************************)
(* Bounds of the model.                                                    *)
(***************************************************************************)
Unit == 2       \* fixed-point resolution: coordinates count 1/Unit pixels
MaxDim == 2     \* largest image width and height given to yolo_bbox alone
MaxInst == 2    \* largest number of instances in the whole dataset

(***************************************************************************)
(* Arithmetic helpers.                                                     *)
(***************************************************************************)
Max(a, b) == IF a >= b THEN a ELSE b
Min(a, b) == IF a <= b THEN a ELSE b

\* Fractions <<n, d>> with d > 0.
FLe(a, b) == a[1] * b[2] <= b[1] * a[2]
FLt(a, b) == a[1] * b[2] < b[1] * a[2]
FEq(a, b) == a[1] * b[2] = b[1] * a[2]
FSub(a, b) == <<a[1] * b[2] - b[1] * a[2], a[2] * b[2]>>
FAdd(a, b) == <<a[1] * b[2] + b[1] * a[2], a[2] * b[2]>>
FHalf(a) == <<a[1], 2 * a[2]>>
FScale(a, k) == <<a[1] * k, a[2]>>
FZero == <<0, 1>>
FOne == <<1, 1>>

\* float(v) of a pixel count v
ToFloat(v) == v * Unit

(***************************************************************************)
(* yolo_bbox: all six arguments are floats (fixed-point).                  *)
(***************************************************************************)
\* yolo_bbox clamping to [0, w] and [0, h] instead of [0, w - 1], [0, h - 1]
yolo_bbox_ClampToSize(xmin, ymin, xmax, ymax, fw, fh) ==
    LET xmin1 == Max(0, Min(xmin, fw))
        xmax1 == Max(0, Min(xmax, fw))
        ymin1 == Max(0, Min(ymin, fh))
        ymax1 == Max(0, Min(ymax, fh))
        bw == Max(0, xmax1 - xmin1)
        bh == Max(0, ymax1 - ymin1)
        cx2 == 2 * xmin1 + bw
        cy2 == 2 * ymin1 + bh
    IN  << <<cx2, 2 * fw>>, <<cy2, 2 * fh>>, <<bw, fw>>, <<bh, fh>> >>

yolo_bbox(xmin, ymin, xmax, ymax, fw, fh) ==
    LET xmin1 == Max(0, Min(xmin, fw - ToFloat(1)))
        xmax1 == Max(0, Min(xmax, fw - ToFloat(1)))
        ymin1 == Max(0, Min(ymin, fh - ToFloat(1)))
        ymax1 == Max(0, Min(ymax, fh - ToFloat(1)))
        bw == Max(0, xmax1 - xmin1)
        bh == Max(0, ymax1 - ymin1)
        \* cx = xmin + bw / 2.0, kept as the fraction (2 xmin + bw) / 2
        cx2 == 2 * xmin1 + bw
        cy2 == 2 * ymin1 + bh
    IN  << <<cx2, 2 * fw>>, <<cy2, 2 * fh>>, <<bw, fw>>, <<bh, fh>> >>

\* f"{x:.6f}": the fraction rounded to 6 decimals, as a count of 1e-6
Fmt6(a) == (2 * a[1] * 1000000 + a[2]) \div (2 * a[2])

(***************************************************************************)
(* label_from_instance                                                     *)
(***************************************************************************)
None == <<>>
Last(s) == s[Len(s)]

label_from_instance(inst, mode) ==
    CASE mode = "class" -> inst.class
      [] mode = "subclass" -> inst.subclass
      [] mode = "superclass" -> inst.superclass
      [] mode = "path" ->
            IF inst.path # None THEN <<Last(inst.path)>> ELSE None
      [] mode = "class_subclass" ->
            IF inst.class # None /\ inst.subclass # None
            THEN inst.class \o inst.subclass
            ELSE IF inst.class # None THEN inst.class ELSE inst.subclass
      [] OTHER -> None

(***************************************************************************)
(* resolve_image_path.  files is the listing of scene_dir (in listing      *)
(* order), fname the declared file name (None or a name), exts the allowed *)
(* extensions.  The result is None or <<the name of the file found>>.      *)
(***************************************************************************)
image_extensions == <<".png", ".jpg", ".jpeg">>

RECURSIVE SelectFirst(_, _, _)
\* the first element of seq s from position i on that is in set S, or None
SelectFirst(s, i, S) ==
    IF i > Len(s) THEN None
    ELSE IF s[i] \in S THEN <<s[i]>>
    ELSE SelectFirst(s, i + 1, S)

Names(files) == {files[i].name : i \in 1..Len(files)}
NameSeq(files) == [i \in 1..Len(files) |-> files[i].name]
\* Path(fname).name
Basename(name) == [name EXCEPT !.dir = ""]

RECURSIVE ResolveByExt(_, _, _)
ResolveByExt(files, exts, k) ==
    IF k > Len(exts) THEN None
    ELSE LET cand == {n \in Names(files) : n.ext = exts[k]}
             beauty == {c \in cand : c.beauty}
         IN  IF beauty # {} THEN SelectFirst(NameSeq(files), 1, beauty)
             ELSE IF cand # {} THEN SelectFirst(NameSeq(files), 1, cand)
             ELSE ResolveByExt(files, exts, k + 1)

resolve_image_path(files, fname, exts) ==
    IF fname # None /\ fname[1] \in Names(files) THEN fname
    ELSE IF fname # None /\ Basename(fname[1]) \in Names(files)
         THEN <<Basename(fname[1])>>
    ELSE ResolveByExt(files, exts, 1)

\* new_name = f"{scene_dir.name}_{src_img.name}"
NewName(scene_name, name) == [scene |-> scene_name, file |-> name]
\* Path(new_name).stem + ".txt"
LabelName(new_name) ==
    [scene |-> new_name.scene, beauty |-> new_name.file.beauty,
     base |-> new_name.file.base]
\* PIL's Image.open(src_img).size: None when the file cannot be read
ImageSize(files, name) ==
    LET f == CHOOSE f \in {files[i] : i \in 1..Len(files)} : f.name = name
    IN  f.size

(***************************************************************************)
(* The maps main builds for one scene (lines 164-180).                     *)
(***************************************************************************)
RECURSIVE ImgKeys(_, _)
\* keys of img_map in insertion order after the first n entries of images
ImgKeys(images, n) ==
    IF n = 0 THEN <<>>
    ELSE LET prev == ImgKeys(images, n - 1)
             iid == images[n].id
         IN  IF \E j \in 1..Len(prev) : prev[j] = iid THEN prev
             ELSE Append(prev, iid)

\* img_map: the last entry of images with each id wins
ImgMap(images) ==
    [iid \in {images[i].id : i \in 1..Len(images)} |->
        LET n == CHOOSE n \in 1..Len(images) :
                    /\ images[n].id = iid
                    /\ \A m \in (n + 1)..Len(images) : images[m].id # iid
        IN  [file_name |-> images[n].file_name,
             width |-> images[n].width,
             height |-> images[n].height]]

IsOrphan(inst, ids) == inst.image_id \notin ids

\* per_image: the instances of each image id, in input order
PerImage(ids, instances) ==
    [iid \in ids |-> SelectSeq(instances, LAMBDA inst : inst.image_id = iid)]

\* the loop of lines 175-180 dropping orphans without counting them
Orphans_Uncounted(ids, instances) == <<>>

\* the instances the loop of lines 175-180 counts as skipped
Orphans(ids, instances) ==
    SelectSeq(instances, LAMBDA inst : IsOrphan(inst, ids))

(***************************************************************************)
(* The class registry (lines 214-217) and the manifest (lines 248-253).    *)
(***************************************************************************)
\* the registry without "next_cid += 1"
Register_NoIncrement(cls, cid, lab) ==
    IF lab \in DOMAIN cls
    THEN [classes |-> cls, next_cid |-> cid]
    ELSE [classes |-> [l \in DOMAIN cls \cup {lab} |->
                          IF l = lab THEN cid ELSE cls[l]],
          next_cid |-> cid]

\* classes and next_cid after "if lab not in classes: ..."
Register(cls, cid, lab) ==
    IF lab \in DOMAIN cls
    THEN [classes |-> cls, next_cid |-> cid]
    ELSE [classes |-> [l \in DOMAIN cls \cup {lab} |->
                          IF l = lab THEN cid ELSE cls[l]],
          next_cid |-> cid + 1]

\* inv: the label of each id, by ascending id
Inv(cls) ==
    [v \in 0..(Cardinality(DOMAIN cls) - 1) |->
        CHOOSE k \in DOMAIN cls : cls[k] = v]

\* a bbox the code takes past "if not bbox or len(bbox) != 4"
HasFour(bbox) == Len(bbox) = 4
\* float() accepts every entry
AllNumeric(bbox) == \A i \in 1..Len(bbox) : bbox[i].num

(***************************************************************************)
(* The inputs: annotation documents and scene directories.                 *)
(***************************************************************************)
FileName(dir, beauty, base, ext) ==
    [dir |-> dir, beauty |-> beauty, base |-> base, ext |-> ext]
ImgPng == FileName("", FALSE, "img", ".png")
ImgJpg == FileName("", FALSE, "img", ".jpg")
BeautyPng == FileName("", TRUE, "0001", ".png")
SubImgPng == FileName("sub", FALSE, "img", ".png")
GonePng == FileName("", FALSE, "gone", ".png")

File(name, size) == [name |-> name, size |-> size]
Image(id, file_name, width, height) ==
    [id |-> id, file_name |-> file_name, width |-> width, height |-> height]
Num(v) == [num |-> TRUE, v |-> ToFloat(v)]
Half(v) == [num |-> TRUE, v |-> ToFloat(v) + 1]
NotNum == [num |-> FALSE, v |-> 0]
Instance(image_id, class, subclass, bbox) ==
    [image_id |-> image_id, class |-> class, subclass |-> subclass,
     superclass |-> <<"thing">>, path |-> <<"lib">> \o class, bbox |-> bbox]

\* what a scene directory and its parsed document can hold
SceneBodies ==
    { \* one image, no file name and no dimensions: found by extension,
      \* measured by PIL
      [images |-> <<Image("i1", None, None, None)>>,
       files |-> <<File(ImgJpg, <<4, 4>>), File(ImgPng, <<4, 4>>),
                   File(BeautyPng, <<4, 4>>)>>],
      \* one image whose width is missing and whose file PIL cannot read
      [images |-> <<Image("i1", <<ImgPng>>, None, <<8>>)>>,
       files |-> <<File(ImgPng, None)>>],
      \* one image whose file is not there
      [images |-> <<Image("i1", <<GonePng>>, <<8>>, <<8>>)>>,
       files |-> <<>>],
      \* two images that resolve to the same file
      [images |-> <<Image("i1", <<ImgPng>>, <<8>>, <<8>>),
                    Image("i2", <<SubImgPng>>, <<8>>, <<8>>)>>,
       files |-> <<File(ImgPng, <<8, 8>>)>>],
      \* two entries of images with the same id: one image, declared by
      \* name, with declared dimensions
      [images |-> <<Image("i1", <<GonePng>>, <<8>>, <<8>>),
                    Image("i1", <<ImgPng>>, <<8>>, <<8>>)>>,
       files |-> <<File(ImgPng, <<8, 8>>)>>] }

InstanceKinds ==
    { Instance("i1", <<"car">>, None, <<Num(2), Num(2), Num(6), Num(6)>>),
      Instance("i1", <<"dog">>, <<"pup">>, <<Num(0), Num(1), Half(2), Num(9)>>),
      Instance("i1", None, None, <<Num(2), Num(2), Num(6), Num(6)>>),
      Instance("i1", <<"dog">>, None, None),
      Instance("i1", <<"car">>, None, <<Num(1), Num(2), Num(3)>>),
      Instance("i1", <<"cat">>, None, <<Num(9), Num(1), Num(12), Num(5)>>),
      Instance("i1", <<"dog">>, None, <<NotNum, Num(1), Num(2), Num(3)>>),
      Instance("i2", <<"cow">>, None, <<Num(1), Num(1), Num(3), Num(3)>>) }

LabelFields == {"class"}
SceneNames == {"s1", "s2"}

\* the sequences of at most n instances
InstanceSeqs(n) == UNION {[1..k -> InstanceKinds] : k \in 0..n}

Scene(name, parses, body, instances) ==
    [name |-> name, parses |-> parses, images |-> body.images,
     files |-> body.files, instances |-> instances]
\* a scene_instances.json that json.loads rejects
Unparsed(name) ==
    [name |-> name, parses |-> FALSE, images |-> <<>>, files |-> <<>>,
     instances |-> <<>>]

\* the scenes a directory of the given name can be, with at most n instances
Scenes(name, n) ==
    {Unparsed(name)} \cup
    {Scene(name, TRUE, b, is) : b \in SceneBodies, is \in InstanceSeqs(n)}

EmptyFn == [x \in {} |-> <<>>]
NoCall == [pc |-> "idle", args |-> <<>>, ret |-> <<>>]

(***************************************************************************)
(* The state after parse_args, clean_output, ensure_dirs and lines 146-148.*)
(***************************************************************************)
Start ==
    /\ pc = "scene"
    /\ exc = ""
    /\ si = 1
    /\ img_keys = <<>>
    /\ img_map = EmptyFn
    /\ per_image = EmptyFn
    /\ ii = 1
    /\ src_img = None
    /\ w = None
    /\ h = None
    /\ ki = 1
    /\ lines = <<>>
    /\ classes = EmptyFn
    /\ next_cid = 0
    /\ stats = [images |-> 0, instances |-> 0, skipped_instances |-> 0,
                scenes |-> 0]

Init ==
    /\ strict \in BOOLEAN
    /\ label_field \in LabelFields
    /\ \E s1 \in Scenes("s1", MaxInst) :
         \E n2 \in SceneNames :
           \E s2 \in Scenes(n2, MaxInst - Len(s1.instances)) :
              dataset = <<s1, s2>>
    /\ Start
    /\ out_images = EmptyFn
    /\ out_labels = EmptyFn
    /\ out_yaml = None
    /\ run = 1
    /\ first_out = None
    /\ bb = NoCall

(***************************************************************************)
(* main, one action per step of its loops.                                 *)
(***************************************************************************)
scene == dataset[si]
iid == img_keys[ii]
meta == img_map[iid]
inst == per_image[iid][ki]
outvars == <<out_images, out_labels, out_yaml>>
cfgvars == <<strict, label_field, dataset, run, first_out, bb>>
scenevars == <<img_keys, img_map, per_image>>
imagevars == <<src_img, w, h, lines>>

Raise(e) ==
    /\ pc' = "raised"
    /\ exc' = e

Count(field, n) == [stats EXCEPT ![field] = @ + n]

\* lines 151-159, json.loads fails, args.strict
ReadFailStrict ==
    /\ pc = "scene" /\ si <= Len(dataset)
    /\ ~scene.parses
    /\ strict
    /\ stats' = Count("scenes", 1)
    /\ Raise("RuntimeError")
    /\ UNCHANGED <<si, ii, ki, classes, next_cid>>
    /\ UNCHANGED <<scenevars, imagevars, outvars, cfgvars>>

\* lines 151-159, json.loads fails, not args.strict: continue
ReadFailSkip ==
    /\ pc = "scene" /\ si <= Len(dataset)
    /\ ~scene.parses
    /\ ~strict
    /\ stats' = Count("scenes", 1)
    /\ si' = si + 1
    /\ UNCHANGED <<pc, exc, ii, ki, classes, next_cid>>
    /\ UNCHANGED <<scenevars, imagevars, outvars, cfgvars>>

\* lines 151-180: the document parses; build img_map and per_image
LoadScene ==
    /\ pc = "scene" /\ si <= Len(dataset)
    /\ scene.parses
    /\ img_keys' = ImgKeys(scene.images, Len(scene.images))
    /\ img_map' = ImgMap(scene.images)
    /\ per_image' = PerImage(DOMAIN img_map', scene.instances)
    /\ stats' = [stats EXCEPT
                   !.scenes = @ + 1,
                   !.skipped_instances =
                       @ + Len(Orphans(DOMAIN img_map', scene.instances))]
    /\ ii' = 1
    /\ pc' = "image"
    /\ UNCHANGED <<exc, si, ki, classes, next_cid>>
    /\ UNCHANGED <<imagevars, outvars, cfgvars>>

\* line 187: img_map.items() is exhausted; next json_path
SceneDone ==
    /\ pc = "image" /\ ii > Len(img_keys)
    /\ si' = si + 1
    /\ pc' = "scene"
    /\ UNCHANGED <<exc, ii, ki, classes, next_cid, stats>>
    /\ UNCHANGED <<scenevars, imagevars, outvars, cfgvars>>

Resolved == resolve_image_path(scene.files, meta.file_name, image_extensions)

\* lines 192-196 without "if args.strict: raise"
ImageMissingStrict_Continue ==
    /\ pc = "image" /\ ii <= Len(img_keys)
    /\ Resolved = None
    /\ strict
    /\ ii' = ii + 1
    /\ UNCHANGED <<pc, exc, si, ki, classes, next_cid, stats>>
    /\ UNCHANGED <<scenevars, imagevars, outvars, cfgvars>>

\* lines 192-195, args.strict
ImageMissingStrict ==
    /\ pc = "image" /\ ii <= Len(img_keys)
    /\ Resolved = None
    /\ strict
    /\ Raise("FileNotFoundError")
    /\ UNCHANGED <<si, ii, ki, classes, next_cid, stats>>
    /\ UNCHANGED <<scenevars, imagevars, outvars, cfgvars>>

\* lines 192-196, not args.strict: continue
ImageMissingSkip ==
    /\ pc = "image" /\ ii <= Len(img_keys)
    /\ Resolved = None
    /\ ~strict
    /\ ii' = ii + 1
    /\ UNCHANGED <<pc, exc, si, ki, classes, next_cid, stats>>
    /\ UNCHANGED <<scenevars, imagevars, outvars, cfgvars>>

\* shutil.copy2(src_img, out_img) unless out_img exists (lines 202-203)
CopyImage(images, new_name, bytes) ==
    IF new_name \in DOMAIN images THEN images
    ELSE [n \in DOMAIN images \cup {new_name} |->
             IF n = new_name THEN bytes ELSE images[n]]

\* lines 188-207: the image is found; copy it and start its lines
ImageResolved ==
    /\ pc = "image" /\ ii <= Len(img_keys)
    /\ Resolved # None
    /\ src_img' = Resolved
    /\ w' = meta.width
    /\ h' = meta.height
    /\ out_images' = CopyImage(out_images, NewName(scene.name, Resolved[1]),
                               [scene |-> si, file |-> Resolved[1]])
    /\ lines' = <<>>
    /\ ki' = 1
    /\ pc' = "inst"
    /\ UNCHANGED <<exc, si, ii, classes, next_cid, stats>>
    /\ UNCHANGED <<scenevars, out_labels, out_yaml, cfgvars>>

lab == label_from_instance(inst, label_field)
Registered == Register(classes, next_cid, lab)
NeedSize == w = None \/ h = None
\* (w, h) once line 226-234 is past: None when PIL cannot read the image
Size == IF NeedSize THEN ImageSize(scene.files, src_img[1])
        ELSE <<w[1], h[1]>>
Box == yolo_bbox(inst.bbox[1].v, inst.bbox[2].v, inst.bbox[3].v,
                 inst.bbox[4].v, ToFloat(Size[1]), ToFloat(Size[2]))
Degenerate(box) == box[3][1] <= 0 \/ box[4][1] <= 0
\* f"{cid} {x:.6f} {y:.6f} {bw:.6f} {bh:.6f}"
Line(cid, box) == <<cid, Fmt6(box[1]), Fmt6(box[2]), Fmt6(box[3]), Fmt6(box[4])>>

AtInst == pc = "inst" /\ ki <= Len(per_image[iid])

\* the instance is dropped: continue with the next one
Continue ==
    /\ ki' = ki + 1
    /\ UNCHANGED <<pc, exc, si, ii, src_img, lines>>
    /\ UNCHANGED <<scenevars, outvars, cfgvars>>

\* lines 210-213: no label
InstNoLabel ==
    /\ AtInst
    /\ lab = None
    /\ stats' = Count("skipped_instances", 1)
    /\ Continue
    /\ UNCHANGED <<classes, next_cid, w, h>>

\* lines 214-223: bbox missing, empty or not of length 4
InstBadBBox ==
    /\ AtInst
    /\ lab # None
    /\ classes' = Registered.classes
    /\ next_cid' = Registered.next_cid
    /\ ~HasFour(inst.bbox)
    /\ stats' = Count("skipped_instances", 1)
    /\ Continue
    /\ UNCHANGED <<w, h>>

\* lines 226-233: PIL cannot give the size, args.strict
InstNoSizeStrict ==
    /\ AtInst
    /\ lab # None
    /\ classes' = Registered.classes
    /\ next_cid' = Registered.next_cid
    /\ HasFour(inst.bbox)
    /\ Size = None
    /\ strict
    /\ Raise("RuntimeError")
    /\ UNCHANGED <<si, ii, ki, stats>>
    /\ UNCHANGED <<scenevars, imagevars, outvars, cfgvars>>

\* lines 226-234: PIL cannot give the size, not args.strict: continue
InstNoSizeSkip ==
    /\ AtInst
    /\ lab # None
    /\ classes' = Registered.classes
    /\ next_cid' = Registered.next_cid
    /\ HasFour(inst.bbox)
    /\ Size = None
    /\ ~strict
    /\ Continue
    /\ UNCHANGED <<stats, w, h>>

\* line 236: float() of a bbox entry that is no number raises
InstNotNumeric ==
    /\ AtInst
    /\ lab # None
    /\ classes' = Registered.classes
    /\ next_cid' = Registered.next_cid
    /\ HasFour(inst.bbox)
    /\ Size # None
    /\ ~AllNumeric(inst.bbox)
    /\ w' = <<Size[1]>>
    /\ h' = <<Size[2]>>
    /\ Raise("ValueError")
    /\ UNCHANGED <<si, ii, ki, stats, src_img, lines>>
    /\ UNCHANGED <<scenevars, outvars, cfgvars>>

\* lines 236-239: the normalized box is degenerate
InstDegenerate ==
    /\ AtInst
    /\ lab # None
    /\ classes' = Registered.classes
    /\ next_cid' = Registered.next_cid
    /\ HasFour(inst.bbox)
    /\ Size # None
    /\ AllNumeric(inst.bbox)
    /\ Degenerate(Box)
    /\ w' = <<Size[1]>>
    /\ h' = <<Size[2]>>
    /\ stats' = Count("skipped_instances", 1)
    /\ Continue

\* lines 236-241: a label line
InstEmit ==
    /\ AtInst
    /\ lab # None
    /\ classes' = Registered.classes
    /\ next_cid' = Registered.next_cid
    /\ HasFour(inst.bbox)
    /\ Size # None
    /\ AllNumeric(inst.bbox)
    /\ ~Degenerate(Box)
    /\ w' = <<Size[1]>>
    /\ h' = <<Size[2]>>
    /\ lines' = Append(lines, Line(Registered.classes[lab], Box))
    /\ ki' = ki + 1
    /\ UNCHANGED <<pc, exc, si, ii, src_img, stats>>
    /\ UNCHANGED <<scenevars, outvars, cfgvars>>

\* the label file opened for appending instead of being rewritten
WriteText_Append(labels, name, ls) ==
    [n \in DOMAIN labels \cup {name} |->
        IF n # name THEN labels[n]
        ELSE IF name \in DOMAIN labels THEN labels[name] \o ls ELSE ls]

\* out_lbl.write_text("\n".join(lines)) (line 243)
WriteText(labels, name, ls) ==
    [n \in DOMAIN labels \cup {name} |-> IF n = name THEN ls ELSE labels[n]]

\* lines 243-245 done only for an image that has label lines
WriteLabel_OnlyIfLines ==
    /\ pc = "inst" /\ ki > Len(per_image[iid])
    /\ IF lines = <<>>
       THEN UNCHANGED <<out_labels, stats>>
       ELSE /\ out_labels' = [n \in DOMAIN out_labels \cup
                                  {LabelName(NewName(scene.name, src_img[1]))}
                                |-> IF n = LabelName(NewName(scene.name, src_img[1]))
                                    THEN lines ELSE out_labels[n]]
            /\ stats' = [stats EXCEPT !.images = @ + 1,
                                      !.instances = @ + Len(lines)]
    /\ ii' = ii + 1
    /\ pc' = "image"
    /\ UNCHANGED <<exc, si, ki, classes, next_cid>>
    /\ UNCHANGED <<scenevars, imagevars, out_images, out_yaml, cfgvars>>

\* lines 243-245: per_image[iid] is exhausted
WriteLabel ==
    /\ pc = "inst" /\ ki > Len(per_image[iid])
    /\ out_labels' = WriteText(out_labels,
                               LabelName(NewName(scene.name, src_img[1])),
                               lines)
    /\ stats' = [stats EXCEPT !.images = @ + 1,
                              !.instances = @ + Len(lines)]
    /\ ii' = ii + 1
    /\ pc' = "image"
    /\ UNCHANGED <<exc, si, ki, classes, next_cid>>
    /\ UNCHANGED <<scenevars, imagevars, out_images, out_yaml, cfgvars>>

\* lines 248-253: the scenes are exhausted; write_data_yaml
WriteYaml ==
    /\ pc = "scene" /\ si > Len(dataset)
    /\ out_yaml' = <<Inv(classes)>>
    /\ pc' = "done"
    /\ UNCHANGED <<exc, si, ii, ki, classes, next_cid, stats>>
    /\ UNCHANGED <<scenevars, imagevars, out_images, out_labels, cfgvars>>

Next ==
    \/ ReadFailStrict
    \/ ReadFailSkip
    \/ LoadScene
    \/ SceneDone
    \/ ImageMissingStrict
    \/ ImageMissingSkip
    \/ ImageResolved
    \/ InstNoLabel
    \/ InstBadBBox
    \/ InstNoSizeStrict
    \/ InstNoSizeSkip
    \/ InstNotNumeric
    \/ InstDegenerate
    \/ InstEmit
    \/ WriteLabel
    \/ WriteYaml

Spec == Init /\ [][Next]_vars

(***************************************************************************)
(* A second invocation with the same arguments on the same directories.    *)
(***************************************************************************)
Output == [images |-> out_images, labels |-> out_labels, yaml |-> out_yaml]

\* main is started again; clean_output (lines 141-142) runs under --clean
Rerun ==
    /\ pc \in {"done", "raised"}
    /\ run = 1
    /\ run' = 2
    /\ first_out' = <<Output>>
    /\ \E clean \in BOOLEAN :
         IF clean
         THEN /\ out_images' = EmptyFn
              /\ out_labels' = EmptyFn
              /\ out_yaml' = None
         ELSE UNCHANGED outvars
    /\ pc' = "scene"
    /\ exc' = ""
    /\ si' = 1
    /\ img_keys' = <<>>
    /\ img_map' = EmptyFn
    /\ per_image' = EmptyFn
    /\ ii' = 1
    /\ src_img' = None
    /\ w' = None
    /\ h' = None
    /\ ki' = 1
    /\ lines' = <<>>
    /\ classes' = EmptyFn
    /\ next_cid' = 0
    /\ stats' = [images |-> 0, instances |-> 0, skipped_instances |-> 0,
                 scenes |-> 0]
    /\ UNCHANGED <<strict, label_field, dataset, bb>>

NextTwice == Next \/ Rerun

SpecTwice == Init /\ [][NextTwice]_vars

(***************************************************************************)
(* yolo_bbox on its own: one call with arbitrary float arguments.          *)
(***************************************************************************)
Coords == (0 - 1)..(ToFloat(MaxDim) + 1)

InitBBox ==
    /\ strict = FALSE
    /\ label_field = "class"
    /\ dataset = <<>>
    /\ Start
    /\ out_images = EmptyFn
    /\ out_labels = EmptyFn
    /\ out_yaml = None
    /\ run = 1
    /\ first_out = None
    /\ \E xmin, ymin, xmax, ymax \in Coords, pw, ph \in 1..MaxDim :
         bb = [pc |-> "call",
               args |-> <<xmin, ymin, xmax, ymax, ToFloat(pw), ToFloat(ph)>>,
               ret |-> <<>>]

CallYoloBBox ==
    /\ bb.pc = "call"
    /\ bb' = [bb EXCEPT !.pc = "ret",
                        !.ret = yolo_bbox(bb.args[1], bb.args[2], bb.args[3],
                                          bb.args[4], bb.args[5], bb.args[6])]
    /\ UNCHANGED <<strict, label_field, dataset, pc, exc, si, ii, ki, classes,
                   next_cid, stats, run, first_out>>
    /\ UNCHANGED <<scenevars, imagevars, outvars>>

NextBBox == CallYoloBBox

SpecBBox == InitBBox /\ [][NextBBox]_vars

(***************************************************************************)
(* What the dataset holds, read off the input alone.                       *)
(***************************************************************************)
ParsedScenes == {s \in 1..Len(dataset) : dataset[s].parses}
ImageIds(s) == {dataset[s].images[i].id : i \in 1..Len(dataset[s].images)}
\* the image records of the dataset: <<scene, image id>>
Records == UNION {{<<s, k>> : k \in ImageIds(s)} : s \in ParsedScenes}
SourceOf(r) ==
    resolve_image_path(dataset[r[1]].files,
                       ImgMap(dataset[r[1]].images)[r[2]].file_name,
                       image_extensions)
ResolvedRecords == {r \in Records : SourceOf(r) # None}
OutputName(r) == NewName(dataset[r[1]].name, SourceOf(r)[1])
\* the entries of the instances collections: <<scene, position>>
Entries ==
    UNION {{<<s, j>> : j \in 1..Len(dataset[s].instances)} : s \in ParsedScenes}
EntryOf(e) == dataset[e[1]].instances[e[2]]
OrphanEntries == {e \in Entries : EntryOf(e).image_id \notin ImageIds(e[1])}
AttachedEntries == Entries \ OrphanEntries
LabelOf(e) == label_from_instance(EntryOf(e), label_field)
\* the scenes whose document has been loaded so far
Loaded == {s \in ParsedScenes : s < si \/ (s = si /\ pc # "scene")}
AllLines ==
    {lines[j] : j \in 1..Len(lines)} \cup
    UNION {{out_labels[n][j] : j \in 1..Len(out_labels[n])} :
              n \in DOMAIN out_labels}

(***************************************************************************)
(* C1.  The class registry: the label -> id mapping is injective, its ids  *)
(* are exactly 0..n-1 for its n labels, a label registered later gets an   *)
(* id above every id already there, and no entry is changed or removed.    *)
(***************************************************************************)
RegistryIds == {classes[l] : l \in DOMAIN classes}
RegistryWellFormed ==
    /\ \A l1, l2 \in DOMAIN classes : classes[l1] = classes[l2] => l1 = l2
    /\ RegistryIds = 0..(Cardinality(DOMAIN classes) - 1)
    /\ next_cid = Cardinality(DOMAIN classes)
RegistryAppendOnly ==
    /\ \A l \in DOMAIN classes :
         l \in DOMAIN classes' /\ classes'[l] = classes[l]
    /\ \A l \in DOMAIN classes' \ DOMAIN classes :
         \A k \in DOMAIN classes : classes'[l] > classes[k]
C1_ClassRegistry == [](RegistryWellFormed) /\ [][RegistryAppendOnly]_vars
C1_Witness ==
    /\ pc = "done"
    /\ Cardinality(DOMAIN classes) >= 2
    /\ \E s1, s2 \in Loaded : s1 # s2 /\ dataset[s1].instances # <<>>
                                      /\ dataset[s2].instances # <<>>

(***************************************************************************)
(* C3.  Structural failures follow args.strict.  Tolerant: an unparsable   *)
(* document, a missing image or an unreadable image size never ends the    *)
(* run, all scenes are visited and the manifest is written at the end.     *)
(* Strict: with any such failure in the dataset the run never completes    *)
(* and no manifest is written.                                             *)
(***************************************************************************)
ParseFailure == \E s \in 1..Len(dataset) : ~dataset[s].parses
MissingImage == Records # ResolvedRecords
SizeUnknown(r) ==
    LET m == ImgMap(dataset[r[1]].images)[r[2]]
    IN  /\ m.width = None \/ m.height = None
        /\ ImageSize(dataset[r[1]].files, SourceOf(r)[1]) = None
UnreadableSize ==
    \E r \in ResolvedRecords :
       /\ SizeUnknown(r)
       /\ \E e \in AttachedEntries :
            /\ e[1] = r[1] /\ EntryOf(e).image_id = r[2]
            /\ LabelOf(e) # None /\ HasFour(EntryOf(e).bbox)
StructuralFailure == ParseFailure \/ MissingImage \/ UnreadableSize
AtParseFailure == pc = "scene" /\ si <= Len(dataset) /\ ~scene.parses
AtMissingImage == pc = "image" /\ ii <= Len(img_keys) /\ Resolved = None
AtUnreadableSize ==
    AtInst /\ lab # None /\ HasFour(inst.bbox) /\ Size = None
\* tolerant: only the scene, the image or the instance at hand is left out
TolerantSkipsOne ==
    ~strict =>
        /\ AtParseFailure =>
              /\ pc' = "scene" /\ exc' = "" /\ si' = si + 1
              /\ UNCHANGED <<outvars, classes, next_cid>>
        /\ AtMissingImage =>
              /\ pc' = "image" /\ exc' = "" /\ si' = si /\ ii' = ii + 1
              /\ UNCHANGED <<outvars, classes, next_cid, stats>>
        /\ AtUnreadableSize =>
              /\ pc' = "inst" /\ exc' = "" /\ si' = si /\ ii' = ii
              /\ ki' = ki + 1
              /\ UNCHANGED <<outvars, lines>>
\* strict: the failure ends the run there
StrictAborts ==
    (strict /\ (AtParseFailure \/ AtMissingImage \/ AtUnreadableSize)) =>
        (pc' = "raised" /\ exc' # "" /\ UNCHANGED outvars)
ManifestOnlyAtEnd ==
    /\ pc = "done" => /\ out_yaml # None
                      /\ stats.scenes = Len(dataset)
                      /\ si = Len(dataset) + 1
    /\ pc # "done" => out_yaml = None
    /\ (strict /\ StructuralFailure) => pc # "done"
C3_StrictGatesStructuralFailures ==
    [](ManifestOnlyAtEnd) /\ [][TolerantSkipsOne /\ StrictAborts]_vars
C3_Witness ==
    /\ ~strict /\ pc = "done"
    /\ ParseFailure /\ (MissingImage \/ UnreadableSize)
    /\ stats.images > 0

(***************************************************************************)
(* C4.  An orphaned instance (its image_id names no entry of images of the *)
(* same document) is counted once in skipped_instances when per_image is   *)
(* built, is in no list of per_image, gives no label line and does not     *)
(* bring its label into the class registry.                                *)
(***************************************************************************)
OrphansOf(s) == {e \in OrphanEntries : e[1] = s}
OrphansKeptOut ==
    /\ pc \in {"image", "inst"} =>
         \A k \in DOMAIN per_image :
            \A j \in 1..Len(per_image[k]) :
               /\ per_image[k][j].image_id = k
               /\ k \in ImageIds(si)
    /\ \A l \in DOMAIN classes :
         \E e \in AttachedEntries : e[1] \in Loaded /\ LabelOf(e) = l
    /\ \A ln \in AllLines : ln[1] \in RegistryIds
OrphansCountedOnLoad ==
    (pc = "scene" /\ pc' = "image") =>
        stats'.skipped_instances =
            stats.skipped_instances + Cardinality(OrphansOf(si))
OrphansNotCountedLater ==
    (pc = "inst" /\ ki <= Len(per_image[iid])) =>
        /\ stats'.skipped_instances <= stats.skipped_instances + 1
        /\ ~IsOrphan(inst, ImageIds(si))
C4_OrphansSkipped ==
    /\ [](OrphansKeptOut)
    /\ [][OrphansCountedOnLoad /\ OrphansNotCountedLater]_vars
C4_Witness ==
    /\ pc = "done"
    /\ \E e \in OrphanEntries : LabelOf(e) # None /\ LabelOf(e) \notin DOMAIN classes
    /\ DOMAIN classes # {}
    /\ stats.instances > 0

(***************************************************************************)
(* C5.  An image record gets a label file and is counted in images exactly *)
(* when its source image is resolved: at every point of a run images is   *)
(* the number of resolved records among those already processed and the    *)
(* label files are those of these records, empty ones included.            *)
(***************************************************************************)
KeyIndex(r) ==
    LET keys == ImgKeys(dataset[r[1]].images, Len(dataset[r[1]].images))
    IN  CHOOSE j \in 1..Len(keys) : keys[j] = r[2]
\* the records whose turn in the loop of line 187 is over
Processed ==
    {r \in Records :
        r[1] < si \/ (r[1] = si /\ pc # "scene" /\ KeyIndex(r) < ii)}
C5_LabelFileIffResolved ==
    /\ stats.images = Cardinality(Processed \cap ResolvedRecords)
    /\ DOMAIN out_labels =
           {LabelName(OutputName(r)) : r \in Processed \cap ResolvedRecords}
C5_Witness ==
    /\ pc = "done"
    /\ MissingImage
    /\ \E r \in ResolvedRecords :
          /\ out_labels[LabelName(OutputName(r))] = <<>>
          /\ \E e \in AttachedEntries : e[1] = r[1] /\ EntryOf(e).image_id = r[2]


(***************************************************************************)
(* C6.  yolo_bbox on a box with xmax > xmin and ymax > ymin inside         *)
(* [0, width) x [0, height): 0 <= cx, cy <= 1, 0 < w, h <= 1, and          *)
(* (cx -+ w/2) * width, (cy -+ h/2) * height are the box clamped to        *)
(* [0, width - 1] x [0, height - 1].  It holds once xmin < width - 1 and   *)
(* ymin < height - 1; a box lying in the last pixel column or row is       *)
(* clamped to zero extent.                                                 *)
(***************************************************************************)
Clamp(v, lo, hi) == Max(lo, Min(v, hi))
BoxInside(a) ==
    /\ a[3] > a[1] /\ a[4] > a[2]
    /\ 0 <= a[1] /\ a[3] < a[5]
    /\ 0 <= a[2] /\ a[4] < a[6]
BoxInRange(r) ==
    /\ FLe(FZero, r[1]) /\ FLe(r[1], FOne)
    /\ FLe(FZero, r[2]) /\ FLe(r[2], FOne)
    /\ FLt(FZero, r[3]) /\ FLe(r[3], FOne)
    /\ FLt(FZero, r[4]) /\ FLe(r[4], FOne)
BoxRoundTrip(a, r) ==
    /\ FEq(FScale(FSub(r[1], FHalf(r[3])), a[5]),
           <<Clamp(a[1], 0, a[5] - ToFloat(1)), 1>>)
    /\ FEq(FScale(FAdd(r[1], FHalf(r[3])), a[5]),
           <<Clamp(a[3], 0, a[5] - ToFloat(1)), 1>>)
    /\ FEq(FScale(FSub(r[2], FHalf(r[4])), a[6]),
           <<Clamp(a[2], 0, a[6] - ToFloat(1)), 1>>)
    /\ FEq(FScale(FAdd(r[2], FHalf(r[4])), a[6]),
           <<Clamp(a[4], 0, a[6] - ToFloat(1)), 1>>)
\* the claim as stated
C6_Original ==
    (bb.pc = "ret" /\ BoxInside(bb.args)) =>
        (BoxInRange(bb.ret) /\ BoxRoundTrip(bb.args, bb.ret))
BoxBeforeLastPixel(a) ==
    /\ a[1] < a[5] - ToFloat(1)
    /\ a[2] < a[6] - ToFloat(1)
\* the claim for boxes that start before the last pixel column and row
C6_NormalizedBox ==
    (bb.pc = "ret" /\ BoxInside(bb.args) /\ BoxBeforeLastPixel(bb.args)) =>
        (BoxInRange(bb.ret) /\ BoxRoundTrip(bb.args, bb.ret))
C6_Witness ==
    /\ bb.pc = "ret"
    /\ BoxInside(bb.args) /\ BoxBeforeLastPixel(bb.args)
    /\ bb.args[3] > bb.args[5] - ToFloat(1)
    /\ bb.args[2] > 0

(***************************************************************************)
(* C7.  A second run with the same input and arguments into the same       *)
(* output directory leaves the image files, the label files and the        *)
(* manifest exactly as the first run left them.                            *)
(***************************************************************************)
C7_SecondRunSameOutput ==
    (run = 2 /\ pc \in {"done", "raised"}) => Output = first_out[1]
C7_Witness ==
    /\ run = 2 /\ pc = "done"
    /\ Cardinality(DOMAIN out_images) >= 2
    /\ \E n \in DOMAIN out_labels : Len(out_labels[n]) >= 1
    /\ Cardinality(DOMAIN classes) >= 2

(***************************************************************************)
(* C2.  An instance of a resolved image with no label, no bbox, a bbox     *)
(* that is not 4 numbers, or a degenerate normalized box is skipped,       *)
(* skipped_instances grows by exactly 1 and the run goes on, strict or     *)
(* not.                                                                    *)
(***************************************************************************)
DataDefect ==
    \/ lab = None
    \/ ~HasFour(inst.bbox)
    \/ (Size # None /\ ~AllNumeric(inst.bbox))
    \/ (Size # None /\ AllNumeric(inst.bbox) /\ Degenerate(Box))
SkippedAndCounted ==
    /\ pc' = "inst" /\ exc' = ""
    /\ ki' = ki + 1
    /\ lines' = lines
    /\ stats'.skipped_instances = stats.skipped_instances + 1
C2_DataDefectsSkipped == [][(AtInst /\ DataDefect) => SkippedAndCounted]_vars

(***************************************************************************)
(* C8.  A class id is obtained only for an instance that gives a label     *)
(* line: a step that drops an instance leaves the class registry as it     *)
(* was.                                                                    *)
(***************************************************************************)
InstanceDropped == AtInst /\ lines' = lines
C8_SkippedLeavesRegistry ==
    [][InstanceDropped => (classes' = classes /\ next_cid' = next_cid)]_vars

(***************************************************************************)
(* C9.  When two image records of a run derive the same output name, the   *)
(* image and the label file of the first one stay: a file of the output    *)
(* directory, once written, is not replaced.                               *)
(***************************************************************************)
FileKept(before, after) ==
    \A n \in DOMAIN before : n \in DOMAIN after /\ after[n] = before[n]
C9_FirstPairKept ==
    [][FileKept(out_images, out_images') /\ FileKept(out_labels, out_labels')]_vars

(***************************************************************************)
(* C10.  At the end of a run that completes, instances + skipped_instances *)
(* is the number of entries of the instances collections of the parsed     *)
(* documents.                                                              *)
(***************************************************************************)
C10_CountersConserved ==
    pc = "done" =>
        stats.instances + stats.skipped_instances = Cardinality(Entries)


====
